---- MODULE Spec2Model ----
(***************************************************************************)
(* A model of action_graph's goal-regression planner                       *)
(* (src/action_graph/planner.py).                                          *)
(*                                                                         *)
(* Values are records [type, chars]: a Python str is its sequence of       *)
(* characters, an int its decimal digits, and Ellipsis the wildcard        *)
(* marker.  A State (an ordered dict) is a sequence of <<key, value>>      *)
(* pairs with distinct keys, a key being a sequence of characters.         *)
(* A Path is a sequence of <<action, state, cost>> triples and a Plan      *)
(* (an OrderedDict) a sequence of <<action, state>> pairs with distinct    *)
(* actions.                                                                *)
(***************************************************************************)
EXTENDS Integers, Sequences, FiniteSets, TLC

VARIABLES actions, action_lookup, start_state, target_state, outcome, pc,
          ref, context, resolved

vars == <<actions, action_lookup, start_state, target_state, outcome, pc,
          ref, context, resolved>>

(***************************************************************************)
(* Bounds of the model.                                                    *)
(***************************************************************************)
\* the largest catalog handed to the constructor in the search runs
MaxCatalog == 4
\* the largest catalog handed to update_actions in the planner's life cycle
MaxUpdateCatalog == 2
\* the largest start state (number of predicates)
MaxStart == 1
\* the longest text handed to the Reference Resolver
MaxRefLen == 2
\* the depth of recursion at which the interpreter gives up (RecursionError)
RecursionLimit == 8

(***************************************************************************)
(* Values, states and actions.                                             *)
(***************************************************************************)
Str(chars) == [type |-> "str", chars |-> chars]

Num(chars) == [type |-> "int", chars |-> chars]

Ellipsis == [type |-> "Ellipsis", chars |-> <<>>]

\* float("inf"), the cost of the Impossible-Action sentinel
Infinity == -1

NoState == <<>>

Items(state) == {state[i] : i \in DOMAIN state}

Keys(state) == {state[i][1] : i \in DOMAIN state}

Get(state, k) == state[CHOOSE i \in DOMAIN state : state[i][1] = k][2]

\* state[k] = v on an ordered dict: an existing key keeps its place
Put(state, k, v) ==
    IF k \in Keys(state)
    THEN [i \in DOMAIN state |-> IF state[i][1] = k THEN <<k, v>> ELSE state[i]]
    ELSE Append(state, <<k, v>>)

Action(name, preconditions, effects, cost) ==
    [name |-> name, preconditions |-> preconditions, effects |-> effects, cost |-> cost]

ActionImpossible == Action("ActionImpossible", NoState, NoState, Infinity)

(***************************************************************************)
(* Costs: naturals and Infinity, added and compared as floats are.         *)
(***************************************************************************)
Plus(a, b) == IF a = Infinity \/ b = Infinity THEN Infinity ELSE a + b

Less(a, b) == a # Infinity /\ (b = Infinity \/ a < b)

\* c > sys.float_info.max
Unbounded(c) == c = Infinity

RECURSIVE PathCost(_)
\* sum(a.cost for a, _, cost in path)
PathCost(path) ==
    IF path = <<>> THEN 0 ELSE Plus(path[1][1].cost, PathCost(Tail(path)))

(***************************************************************************)
(* Planner.__check_references                                              *)
(***************************************************************************)
\* ref[1:]
Slice1(chars) == IF chars = <<>> THEN <<>> ELSE Tail(chars)

check_references(r, state) ==
    IF r.type = "str" /\ Slice1(r.chars) \in Keys(state)
    THEN Get(state, Slice1(r.chars))
    ELSE r

(***************************************************************************)
(* Planner.__create_action_lookup: a defaultdict(list), here a function    *)
(* whose domain is the set of keys it holds.                               *)
(***************************************************************************)
EmptyLookup == [key \in {} |-> <<>>]

\* lookup[key] of a defaultdict(list): a missing key is inserted with []
Touch(lookup, key) ==
    IF key \in DOMAIN lookup THEN lookup ELSE lookup @@ (key :> <<>>)

AppendTo(lookup, key, action) ==
    [k \in DOMAIN lookup \cup {key} |->
        IF k = key
        THEN Append(IF key \in DOMAIN lookup THEN lookup[key] ELSE <<>>, action)
        ELSE lookup[k]]

RECURSIVE AddEffects(_, _, _, _)
AddEffects(lookup, action, effects, j) ==
    IF j > Len(effects) THEN lookup
    ELSE AddEffects(AppendTo(lookup, effects[j], action), action, effects, j + 1)

RECURSIVE AddActions(_, _, _)
AddActions(lookup, catalog, i) ==
    IF i > Len(catalog) THEN lookup
    ELSE AddActions(AddEffects(lookup, catalog[i], catalog[i].effects, 1), catalog, i + 1)

create_action_lookup(catalog) == AddActions(EmptyLookup, catalog, 1)

(***************************************************************************)
(* Planner.__unique and Planner.__path_to_plan                             *)
(***************************************************************************)
RECURSIVE UniqueFrom(_, _, _)
UniqueFrom(path, i, kept) ==
    IF i > Len(path) THEN kept
    ELSE UniqueFrom(path, i + 1,
                    IF \E j \in DOMAIN kept : kept[j] = path[i]
                    THEN kept ELSE Append(kept, path[i]))

RECURSIVE UniqueLastFrom(_, _, _)
UniqueLastFrom(path, i, kept) ==
    IF i > Len(path) THEN kept
    ELSE UniqueLastFrom(path, i + 1,
                        Append(SelectSeq(kept, LAMBDA x : x # path[i]), path[i]))

\* a deduplication that keeps each triple's last occurrence
unique_last(path) == UniqueLastFrom(path, 1, <<>>)

unique(path) == UniqueFrom(path, 1, <<>>)

RECURSIVE PlanFrom(_, _, _)
PlanFrom(path, i, plan) ==
    IF i > Len(path) THEN plan
    ELSE PlanFrom(path, i + 1, Put(plan, path[i][1], path[i][2]))

path_to_plan(path) == PlanFrom(path, 1, <<>>)

(***************************************************************************)
(* Planner.__find_actions.  The result is what the call leaves behind:     *)
(* exc (the exception raised, or "none"), path (the value returned),       *)
(* raw (chosen_path before __unique) and lookup (the Action Index, which   *)
(* every probe of a missing key extends).  A recursion deeper than         *)
(* RecursionLimit ends the search with the interpreter's RecursionError    *)
(* (which __check_references, when the limit strikes inside it, re-raises  *)
(* as its own Exception): an error either way, kept apart here from the    *)
(* Exception of line 95.                                                   *)
(***************************************************************************)
Return(path, raw, lookup) ==
    [exc |-> "none", path |-> path, raw |-> raw, lookup |-> lookup]

Raise(exc, lookup) ==
    [exc |-> exc, path |-> <<>>, raw |-> <<>>, lookup |-> lookup]

\* a comparison by identity, which no freshly built pair passes
AlreadyMetByIdentity(gk, gv, start) == FALSE

\* (gk, gv) in list(start_state.items())
AlreadyMet(gk, gv, start) == <<gk, gv>> \in Items(start)

\* action_path_cost <= chosen_path_cost: a tie goes to the later candidate
CheaperOrEqual(action_path, chosen_path) == ~Less(PathCost(chosen_path), PathCost(action_path))

\* action_path_cost < chosen_path_cost
Cheaper(action_path, chosen_path) == Less(PathCost(action_path), PathCost(chosen_path))

\* the candidate kept after comparing action_path with the running best
Keep(chosen_path, action_path) ==
    IF chosen_path = <<>> THEN action_path
    ELSE IF Cheaper(action_path, chosen_path) THEN action_path
    ELSE chosen_path

\* the value __find_actions hands back for the path it chose
Finish(chosen_path, lookup) ==
    IF Unbounded(PathCost(chosen_path))
    THEN Raise("Exception", lookup)
    ELSE Return(unique(chosen_path), chosen_path, lookup)

\* the value __find_actions hands back when no action produces the predicate
NoCandidate(lookup) ==
    Return(<<<<ActionImpossible, NoState, Infinity>>>>,
           <<<<ActionImpossible, NoState, Infinity>>>>, lookup)

RECURSIVE find_actions(_, _, _, _)
RECURSIVE ExploreActions(_, _, _, _, _, _, _)
RECURSIVE SolvePreconditions(_, _, _, _, _, _, _)

\* a sub-search handed the goal being solved instead of the precondition
SubGoalIsGoal(pk, pv, expected_outcome) == expected_outcome

\* the goal of the sub-search for precondition (pk, pv): {pk: pv}
SubGoal(pk, pv, expected_outcome) == <<<<pk, pv>>>>

\* for pk, pv in action.preconditions.items(): ...
SolvePreconditions(lookup, preconditions, j, expected_outcome, start, action_path, depth) ==
    IF j > Len(preconditions) THEN Return(action_path, action_path, lookup)
    ELSE LET pk == preconditions[j][1]
             pv == check_references(preconditions[j][2], expected_outcome)
             sub == find_actions(lookup, SubGoal(pk, pv, expected_outcome), start, depth + 1)
         IN  IF sub.exc # "none" THEN sub
             ELSE SolvePreconditions(sub.lookup, preconditions, j + 1, expected_outcome,
                                     start, action_path \o sub.path, depth)

\* for action in probable_actions: ...
ExploreActions(lookup, probable_actions, i, expected_outcome, start, chosen_path, depth) ==
    IF i > Len(probable_actions) THEN Return(chosen_path, chosen_path, lookup)
    ELSE LET action == probable_actions[i]
             pre == SolvePreconditions(lookup, action.preconditions, 1,
                                       expected_outcome, start, <<>>, depth)
             action_path == Append(pre.path, <<action, expected_outcome, action.cost>>)
         IN  IF pre.exc # "none" THEN pre
             ELSE ExploreActions(pre.lookup, probable_actions, i + 1, expected_outcome,
                                 start, Keep(chosen_path, action_path), depth)

find_actions(lookup, target, start, depth) ==
    IF depth > RecursionLimit THEN Raise("RecursionError", lookup)
    ELSE LET gk == target[1][1]
             gv == check_references(target[1][2], start)
         IN  IF AlreadyMet(gk, gv, start) THEN Return(<<>>, <<>>, lookup)
             ELSE LET l1 == Touch(lookup, <<gk, gv>>)
                      exact == l1[<<gk, gv>>]
                      l2 == IF exact = <<>> THEN Touch(l1, <<gk, Ellipsis>>) ELSE l1
                      probable_actions == IF exact # <<>> THEN exact ELSE l2[<<gk, Ellipsis>>]
                      expected_outcome == <<<<gk, gv>>>>
                      chosen == ExploreActions(l2, probable_actions, 1, expected_outcome,
                                               start, <<>>, depth)
                  IN  IF probable_actions = <<>> THEN NoCandidate(l2)
                      ELSE IF chosen.exc # "none" THEN chosen
                      ELSE Finish(chosen.path, chosen.lookup)

(***************************************************************************)
(* Planner.find_plan                                                       *)
(***************************************************************************)
find_plan(lookup, start, target) ==
    LET found == find_actions(lookup, target, start, 1)
    IN  [exc |-> found.exc, plan |-> path_to_plan(found.path), path |-> found.path,
         raw |-> found.raw, lookup |-> found.lookup]

(***************************************************************************)
(* The inputs: a library of actions over the variables g, p and q, the     *)
(* catalogs drawn from it (in library order), start states and targets.    *)
(***************************************************************************)
g == <<"g">>

p == <<"p">>

q == <<"q">>

one == Num(<<"1">>)

two == Num(<<"2">>)

Library ==
    << Action("G1", << <<p, one>> >>, << <<g, one>> >>, 1),
       Action("G2", NoState, << <<g, one>> >>, 6),
       Action("GA", << <<p, one>>, <<q, one>> >>, << <<g, one>> >>, 1),
       Action("GW", NoState, << <<g, Ellipsis>> >>, 1),
       Action("P", << <<q, one>> >>, << <<p, one>> >>, 1),
       Action("Q", NoState, << <<q, one>> >>, 3),
       Action("K", NoState, << <<p, one>>, <<q, two>> >>, 1),
       Action("W", << <<q, Str(<<"@", "p">>)>> >>, << <<p, Ellipsis>> >>, 1),
       Action("QH", << <<p, two>> >>, << <<q, one>> >>, 1),
       Action("C", << <<p, one>> >>, << <<q, one>> >>, 1) >>

\* the actions of Library at the indexes in S, in library order
Pick(S) == SelectSeq(Library, LAMBDA a : \E i \in S : Library[i] = a)

CatalogsUpTo(n) ==
    {Pick(S) : S \in {T \in SUBSET DOMAIN Library : Cardinality(T) <= n}}

\* the catalogs of the planner's life cycle: of the actions with one effect
\* and fixed preconditions that lead to g
UpdateCatalogs ==
    {Pick(S) : S \in {T \in SUBSET {i \in DOMAIN Library :
                                         Library[i].name \in {"G1", "G2", "GW", "P", "Q"}} :
                         Cardinality(T) <= MaxUpdateCatalog}}

StartPool == << <<p, one>>, <<p, two>>, <<q, one>>, <<q, two>> >>

Starts ==
    {SelectSeq(StartPool, LAMBDA x : x \in S) :
        S \in {T \in SUBSET Items(StartPool) :
                  /\ Cardinality(T) <= MaxStart
                  /\ \A x \in T, y \in T : x[1] = y[1] => x = y}}

Targets ==
    { << <<g, one>> >>,
      << <<p, one>> >>,
      << <<q, one>> >>,
      << <<g, Str(<<"@", "q">>)>> >>,
      << <<g, Str(<<"x", "q">>)>> >>,
      << <<g, one>>, <<p, one>> >> }

NoOutcome == [exc |-> "pending", plan |-> <<>>, path |-> <<>>, raw |-> <<>>]

(***************************************************************************)
(* The operations of a Planner.                                            *)
(***************************************************************************)
\* an update that adds the new catalog to the index it finds
update_actions_merging(lookup, catalog) == AddActions(lookup, catalog, 1)

\* the Action Index after update_actions(catalog)
update_actions(lookup, catalog) == create_action_lookup(catalog)

\* Planner.update_actions(catalog)
UpdateActions ==
    /\ pc # "call"
    /\ \E catalog \in UpdateCatalogs :
          /\ actions' = catalog
          /\ action_lookup' = update_actions(action_lookup, catalog)
    /\ pc' = "updated"
    /\ UNCHANGED <<start_state, target_state, outcome, ref, context, resolved>>

\* Planner.find_plan(start, target), on inputs chosen at the call
FindPlan ==
    /\ pc # "call"
    /\ \E start \in Starts, target \in Targets :
          \E found \in {find_plan(action_lookup, start, target)} :
              /\ start_state' = start
              /\ target_state' = target
              /\ outcome' = [exc |-> found.exc, plan |-> found.plan,
                             path |-> found.path, raw |-> found.raw]
              /\ action_lookup' = found.lookup
    /\ pc' = "done"
    /\ UNCHANGED <<actions, ref, context, resolved>>

\* Planner.find_plan on the inputs of a pending call
Search ==
    /\ pc = "call"
    /\ \E found \in {find_plan(action_lookup, start_state, target_state)} :
           /\ outcome' = [exc |-> found.exc, plan |-> found.plan,
                          path |-> found.path, raw |-> found.raw]
           /\ action_lookup' = found.lookup
    /\ pc' = "done"
    /\ UNCHANGED <<actions, start_state, target_state, ref, context, resolved>>

\* the life cycle of one Planner: constructed, then updated and searched
Init ==
    /\ actions \in UpdateCatalogs
    /\ action_lookup = create_action_lookup(actions)
    /\ start_state = NoState
    /\ target_state = NoState
    /\ outcome = NoOutcome
    /\ pc = "constructed"
    /\ ref = Ellipsis /\ context = NoState /\ resolved = Ellipsis

Next == UpdateActions \/ FindPlan

Spec == Init /\ [][Next]_vars

\* one search: a Planner constructed from a catalog, and one find_plan call
InitSearch ==
    /\ actions \in CatalogsUpTo(MaxCatalog)
    /\ action_lookup = create_action_lookup(actions)
    /\ start_state \in Starts
    /\ target_state \in Targets
    /\ outcome = NoOutcome
    /\ pc = "call"
    /\ ref = Ellipsis /\ context = NoState /\ resolved = Ellipsis

NextSearch == Search

SpecSearch == InitSearch /\ [][NextSearch]_vars

\* one call of the Reference Resolver, on a value and a context state
RECURSIVE TextsUpTo(_)
TextsUpTo(n) ==
    IF n = 0 THEN {<<>>}
    ELSE TextsUpTo(n - 1) \cup
         {Append(t, c) : t \in TextsUpTo(n - 1), c \in {"@", "x", "p", "q"}}

RefValues == {Str(t) : t \in TextsUpTo(MaxRefLen)} \cup {one, two}

Resolve ==
    /\ pc = "resolve"
    /\ resolved' = check_references(ref, context)
    /\ pc' = "resolved"
    /\ UNCHANGED <<actions, action_lookup, start_state, target_state, outcome, ref, context>>

InitResolver ==
    /\ actions = <<>>
    /\ action_lookup = EmptyLookup
    /\ start_state = NoState
    /\ target_state = NoState
    /\ outcome = NoOutcome
    /\ pc = "resolve"
    /\ ref \in RefValues
    /\ context \in Starts
    /\ resolved = Ellipsis

NextResolver == Resolve

SpecResolver == InitResolver /\ [][NextResolver]_vars

(***************************************************************************)
(* What the claims speak of.                                               *)
(***************************************************************************)
Done == pc = "done"

\* find_plan returned a Plan (it raised nothing)
Returned == pc = "done" /\ outcome.exc = "none"

\* the target's first predicate, its value resolved against start
ResolvedTarget ==
    <<target_state[1][1], check_references(target_state[1][2], start_state)>>

PlanActions == {outcome.plan[i][1] : i \in DOMAIN outcome.plan}

PlaceOf(a) == CHOOSE i \in DOMAIN outcome.plan : outcome.plan[i][1] = a

\* a Plan of catalog actions: returned, and without the sentinel
RealPlan == Returned /\ ActionImpossible \notin PlanActions

\* the actions of the path a sub-search for predicate (pk, pv) returns
SubPathActions(pk, pv) ==
    LET sub == find_actions(action_lookup, <<<<pk, pv>>>>, start_state, 2)
    IN  {sub.path[i][1] : i \in DOMAIN sub.path}

\* the precondition (pk, pv) of an action reached for predicted state S,
\* as the search resolves it: against S, then against start
Resolve2(pv, S) == check_references(check_references(pv, S), start_state)

(***************************************************************************)
(* C7: when the target's first predicate, resolved against start, is a     *)
(* pair of start, find_plan returns the empty Plan whatever the catalog;   *)
(* and a precondition of the chosen action whose resolved pair is in start *)
(* contributes no action: the Plan holds the chosen action and the actions *)
(* found for its other preconditions, nothing else.                        *)
(***************************************************************************)
C7_SatisfiedNeedsNoAction ==
    /\ (Done /\ ResolvedTarget \in Items(start_state))
          => (outcome.exc = "none" /\ outcome.plan = <<>>)
    /\ (RealPlan /\ outcome.path # <<>>)
          => LET top == outcome.path[Len(outcome.path)]
                 pre == top[1].preconditions
                 unmet == {j \in DOMAIN pre :
                              <<pre[j][1], Resolve2(pre[j][2], top[2])>>
                                  \notin Items(start_state)}
             IN  PlanActions =
                    {top[1]} \cup UNION {SubPathActions(pre[j][1], Resolve2(pre[j][2], top[2])) :
                                           j \in unmet}

\* the target is already in start although the catalog could produce it
C7_Witness ==
    /\ Done
    /\ ResolvedTarget \in Items(start_state)
    /\ ResolvedTarget \in DOMAIN create_action_lookup(actions)
    /\ outcome.plan = <<>>

\* a chosen action with one precondition met by start and one solved by an action
C7_WitnessPrecondition ==
    /\ RealPlan /\ Len(outcome.plan) = 2
    /\ LET top == outcome.path[Len(outcome.path)]
       IN  \E j \in DOMAIN top[1].preconditions :
              <<top[1].preconditions[j][1], Resolve2(top[1].preconditions[j][2], top[2])>>
                  \in Items(start_state)

\* the actions of a path, in the order in which they first occur
RECURSIVE FirstActions(_, _, _)
FirstActions(path, i, seen) ==
    IF i > Len(path) THEN seen
    ELSE FirstActions(path, i + 1,
                      IF \E j \in DOMAIN seen : seen[j] = path[i][1]
                      THEN seen ELSE Append(seen, path[i][1]))

(***************************************************************************)
(* C5: an action the search needs in two or more precondition branches is  *)
(* in the Plan once, at the place of its first occurrence in the raw path: *)
(* no Plan holds an action twice, and the Plan's actions are the raw       *)
(* path's actions in the order in which they first occur.                  *)
(***************************************************************************)
C5_OnceAtFirstOccurrence ==
    Returned =>
        /\ \A i \in DOMAIN outcome.plan, j \in DOMAIN outcome.plan :
              outcome.plan[i][1] = outcome.plan[j][1] => i = j
        /\ [i \in DOMAIN outcome.plan |-> outcome.plan[i][1]]
              = FirstActions(outcome.raw, 1, <<>>)

\* a Plan whose raw path holds one action twice
C5_Witness ==
    /\ RealPlan
    /\ \E i \in DOMAIN outcome.raw, j \in DOMAIN outcome.raw :
          i < j /\ outcome.raw[i][1] = outcome.raw[j][1]

(***************************************************************************)
(* C2: when the resolved target predicate is not in start and no catalog   *)
(* action has the target's key among its effects, find_plan raises the     *)
(* goal-unreachable error and returns no Plan; and the Impossible-Action   *)
(* sentinel is an entry of no returned Plan.                               *)
(***************************************************************************)
C2_UnproducibleGoalFails ==
    /\ ( /\ Done
         /\ ResolvedTarget \notin Items(start_state)
         /\ \A i \in DOMAIN actions : ResolvedTarget[1] \notin Keys(actions[i].effects) )
          => outcome.exc = "Exception"
    /\ Returned => ActionImpossible \notin PlanActions

\* the execution of a Plan: each action fires when its preconditions, resolved
\* against the state predicted for it, hold, and writes its effects
PreconditionsHold(state, action, predicted) ==
    \A j \in DOMAIN action.preconditions :
        <<action.preconditions[j][1],
          check_references(action.preconditions[j][2], predicted)>> \in Items(state)

RECURSIVE WriteEffects(_, _, _, _)
WriteEffects(state, effects, predicted, j) ==
    IF j > Len(effects) THEN state
    ELSE LET k == effects[j][1]
             v == effects[j][2]
         IN  WriteEffects(IF v # Ellipsis THEN Put(state, k, v)
                          ELSE IF k \in Keys(predicted) THEN Put(state, k, Get(predicted, k))
                          ELSE state,
                          effects, predicted, j + 1)

RECURSIVE Execute(_, _, _)
Execute(plan, i, state) ==
    IF i > Len(plan) THEN [valid |-> TRUE, state |-> state]
    ELSE IF ~PreconditionsHold(state, plan[i][1], plan[i][2])
         THEN [valid |-> FALSE, state |-> state]
         ELSE Execute(plan, i + 1, WriteEffects(state, plan[i][1].effects, plan[i][2], 1))

(***************************************************************************)
(* C1: executing a returned Plan in Plan order from start is a valid       *)
(* execution: each action's preconditions (references resolved against the *)
(* state predicted for it) hold when it fires, each action writes its      *)
(* effects, a wildcard effect writing the predicted value, and the final   *)
(* state holds the target predicate.  Stated for the Plans of catalog      *)
(* actions; the Plans that hold the sentinel are C2's.                     *)
(***************************************************************************)
C1_PlanExecutes ==
    RealPlan =>
        LET run == Execute(outcome.plan, 1, start_state)
        IN  run.valid /\ ResolvedTarget \in Items(run.state)

(***************************************************************************)
(* C6: in a returned Plan each action A, mapped to the predicted state S,  *)
(* comes after every other action of the Plan that the search selected to  *)
(* satisfy a precondition of A for S (the precondition resolved against    *)
(* S), also when A was reached with several predicted states.              *)
(***************************************************************************)
C6_AfterItsPreconditions ==
    RealPlan =>
        \A i \in DOMAIN outcome.plan :
            LET A == outcome.plan[i][1]
                S == outcome.plan[i][2]
            IN  \A j \in DOMAIN A.preconditions :
                    \A b \in SubPathActions(A.preconditions[j][1],
                                            check_references(A.preconditions[j][2], S)) :
                        (b \in PlanActions /\ b # A) => PlaceOf(b) < i

(***************************************************************************)
(* The catalog's dependency relation: a predicate requires the resolved    *)
(* preconditions of every catalog action that can produce it, with a fixed *)
(* value or as a wildcard.                                                 *)
(***************************************************************************)
\* the catalog actions that can produce predicate pred, in catalog order
Producers(pred) ==
    SelectSeq(actions, LAMBDA a : <<pred[1], pred[2]>> \in Items(a.effects)
                                  \/ <<pred[1], Ellipsis>> \in Items(a.effects))

\* the precondition predicates of action a reached for predicate pred
SubGoals(a, pred) ==
    {<<a.preconditions[j][1], Resolve2(a.preconditions[j][2], <<pred>>)>> :
        j \in DOMAIN a.preconditions}

Requires(pred) ==
    UNION {SubGoals(Producers(pred)[i], pred) : i \in DOMAIN Producers(pred)}

RECURSIVE Closure(_)
Closure(S) ==
    LET T == S \cup UNION {Requires(x) : x \in S}
    IN  IF T = S THEN S ELSE Closure(T)

\* no predicate the target leads to requires itself, directly or transitively
Acyclic == \A x \in Closure({ResolvedTarget}) : x \notin Closure(Requires(x))

(***************************************************************************)
(* C9: on a catalog whose dependency relation is acyclic find_plan         *)
(* terminates, with a Plan or with the goal-unreachable error: the         *)
(* recursion never runs away, although a sub-goal may be solved more than  *)
(* once.                                                                   *)
(***************************************************************************)
C9_AcyclicTerminates ==
    (Done /\ Acyclic) => outcome.exc \in {"none", "Exception"}

\* an acyclic catalog on which one sub-goal was solved twice
C9_Witness ==
    /\ RealPlan /\ Acyclic
    /\ \E i \in DOMAIN outcome.raw, j \in DOMAIN outcome.raw :
          i < j /\ outcome.raw[i] = outcome.raw[j]
    /\ Len(outcome.plan) >= 3

\* a cyclic catalog, on which the recursion runs away
CyclicOverflows == Done /\ ~Acyclic /\ outcome.exc = "RecursionError"

\* the candidates the search explores for pred: the actions with the fixed
\* effect or, when there is none, those with the wildcard effect
Candidates(pred) ==
    LET fixed == SelectSeq(actions, LAMBDA a : <<pred[1], pred[2]>> \in Items(a.effects))
    IN  IF fixed # <<>> THEN fixed
        ELSE SelectSeq(actions, LAMBDA a : <<pred[1], Ellipsis>> \in Items(a.effects))

RECURSIVE Achievable(_, _)
Achievable(pred, depth) ==
    \/ pred \in Items(start_state)
    \/ /\ depth <= RecursionLimit
       /\ \E i \in DOMAIN Candidates(pred) :
             \A sub \in SubGoals(Candidates(pred)[i], pred) : Achievable(sub, depth + 1)

(***************************************************************************)
(* C4: a sub-search that cannot reach its sub-goal never aborts the whole  *)
(* search: when the target predicate is achievable (it is in start, or one *)
(* of its candidate actions has all its preconditions achievable in turn), *)
(* find_plan returns a Plan, at whatever depth of another candidate's      *)
(* preconditions an unproducible predicate lies.  Stated for acyclic       *)
(* catalogs, on which no recursion runs away.                              *)
(***************************************************************************)
C4_UnreachableBranchNeverAborts ==
    (Done /\ Acyclic /\ Achievable(ResolvedTarget, 1)) => outcome.exc = "none"

(***************************************************************************)
(* The alternatives for the target predicate: an action that produces it,  *)
(* after the paths found for its preconditions.                            *)
(***************************************************************************)
TopAction == outcome.path[Len(outcome.path)][1]

PlaceInCatalog(a) == CHOOSE i \in DOMAIN actions : actions[i] = a

Alternative(a) ==
    LET pre == SolvePreconditions(action_lookup, a.preconditions, 1, <<ResolvedTarget>>,
                                  start_state, <<>>, 1)
    IN  [exc |-> pre.exc, path |-> Append(pre.path, <<a, <<ResolvedTarget>>, a.cost>>)]

RECURSIVE SumCosts(_)
SumCosts(as) == IF as = <<>> THEN 0 ELSE Plus(as[1].cost, SumCosts(Tail(as)))

\* the cost of the alternative's actions, each action counted once
DistinctCost(a) ==
    IF Alternative(a).exc # "none" THEN Infinity
    ELSE SumCosts(FirstActions(Alternative(a).path, 1, <<>>))

\* the cost of the alternative's path as assembled: every triple counts, an
\* action that two preconditions need counts twice
AssembledCost(a) ==
    IF Alternative(a).exc # "none" THEN Infinity ELSE PathCost(Alternative(a).path)

C3_WitnessTie ==
    /\ RealPlan /\ outcome.path # <<>>
    /\ \E i \in DOMAIN Candidates(ResolvedTarget) :
          LET a == Candidates(ResolvedTarget)[i]
          IN  a # TopAction /\ AssembledCost(a) = AssembledCost(TopAction)

\* what a Planner freshly constructed from the current catalog returns
FreshPlanner == find_plan(create_action_lookup(actions), start_state, target_state)

(***************************************************************************)
(* C10: after any sequence of update_actions and find_plan calls on one    *)
(* Planner, find_plan gives the result (the Plan, or the error) that a     *)
(* Planner freshly constructed from the catalog supplied last gives for    *)
(* the same start and target: the keys earlier searches left in the Action *)
(* Index, and earlier catalogs, change nothing.                            *)
(***************************************************************************)
C10_SameAsFreshPlanner ==
    Done => (outcome.exc = FreshPlanner.exc /\ outcome.plan = FreshPlanner.plan)

\* a Plan found with an index that holds keys an earlier search left there
C10_Witness ==
    /\ RealPlan /\ outcome.plan # <<>>
    /\ action_lookup # FreshPlanner.lookup

\* an indirect reference: the sigil, then a key of the context state
IsReference(r, state) ==
    /\ r.type = "str"
    /\ r.chars # <<>>
    /\ Head(r.chars) = "@"
    /\ Tail(r.chars) \in Keys(state)

(***************************************************************************)
(* C8: the Reference Resolver replaces a value by the context state's      *)
(* value for key K only when the value is an indirect reference, a text    *)
(* whose first character is the sigil '@' and whose remainder is K, a key  *)
(* of the context state; every other value is returned unchanged.          *)
(***************************************************************************)
C8_OnlyReferencesResolve ==
    pc = "resolved" =>
        resolved = IF IsReference(ref, context) THEN Get(context, Tail(ref.chars)) ELSE ref

====
